---- MODULE Spec2Model ----
(***************************************************************************)
(* AttrScrollAnimator (src/AttrScrollAnimator.js): a state-machine model   *)
(* of the engine, of the browser objects it drives (IntersectionObserver,  *)
(* setTimeout, requestAnimationFrame, the resize and load events) and of   *)
(* the host page.                                                          *)
(*                                                                         *)
(* Numbers.  JavaScript numbers are modelled as reduced rationals <<n, d>> *)
(* with d > 0, and NaN as <<0, 0>>.  Time is in milliseconds.  Lengths are *)
(* in CSS pixels.                                                          *)
(* Strings.  An attribute value is a TLA+ string; Null stands for an       *)
(* absent attribute (getAttribute returns null).  The values that the code *)
(* parses are spelled out character by character in Chars.                 *)
(***************************************************************************)
EXTENDS Integers, Sequences, FiniteSets, TLC

Null == "<null>"

\* JavaScript truthiness of an attribute value (null and "" are falsy).
Truthy(value) == value # Null /\ value # ""

----------------------------------------------------------------------------
(* Rational arithmetic standing for JavaScript numbers *)

NaN == <<0, 0>>

isNaN(x) == x[2] = 0

Abs(n) == IF n < 0 THEN -n ELSE n

RECURSIVE Gcd(_, _)
Gcd(a, b) == IF b = 0 THEN a ELSE Gcd(b, a % b)

\* n / d as a reduced rational; anything over 0 is not a finite number.
Frac(n, d) ==
    IF d = 0 THEN NaN
    ELSE LET g == Gcd(Abs(n), Abs(d))
             s == IF d < 0 THEN -1 ELSE 1
         IN  <<(s * n) \div g, (s * d) \div g>>

Num(n) == <<n, 1>>

Mul(x, y) == IF isNaN(x) \/ isNaN(y) THEN NaN ELSE Frac(x[1] * y[1], x[2] * y[2])

Div(x, y) ==
    IF isNaN(x) \/ isNaN(y) THEN NaN ELSE Frac(x[1] * y[2], x[2] * y[1])

Add(x, y) ==
    IF isNaN(x) \/ isNaN(y) THEN NaN
    ELSE Frac(x[1] * y[2] + y[1] * x[2], x[2] * y[2])

Neg(x) == IF isNaN(x) THEN NaN ELSE <<-x[1], x[2]>>

\* x <= y; every comparison with NaN is false.
Leq(x, y) == ~isNaN(x) /\ ~isNaN(y) /\ x[1] * y[2] <= y[1] * x[2]

\* Integer part towards zero (the timer delay conversion of setTimeout).
Trunc(x) == IF x[1] >= 0 THEN x[1] \div x[2] ELSE -((-x[1]) \div x[2])

RECURSIVE Pow10(_)
Pow10(k) == IF k = 0 THEN 1 ELSE 10 * Pow10(k - 1)

----------------------------------------------------------------------------
(* Attribute strings and the JavaScript parsers *)

Digits == <<"0", "1", "2", "3", "4", "5", "6", "7", "8", "9">>

IsDigit(c) == \E i \in 1..10 : Digits[i] = c

DigitVal(c) == (CHOOSE i \in 1..10 : Digits[i] = c) - 1

\* The spelling of every attribute value that the code parses.
Chars ==
    [v \in {Null, "", "0.5", "0.25", "400px", "150px", "px", "10rem", "abc",
            "100ms", "0.1s", "200", "0", "1", "bogus"} |->
        CASE v = "0.5"   -> <<"0", ".", "5">>
          [] v = "150px" -> <<"1", "5", "0", "p", "x">>
          [] v = "0.25"  -> <<"0", ".", "2", "5">>
          [] v = "400px" -> <<"4", "0", "0", "p", "x">>
          [] v = "px"    -> <<"p", "x">>
          [] v = "10rem" -> <<"1", "0", "r", "e", "m">>
          [] v = "abc"   -> <<"a", "b", "c">>
          [] v = "100ms" -> <<"1", "0", "0", "m", "s">>
          [] v = "0.1s"  -> <<"0", ".", "1", "s">>
          [] v = "200"   -> <<"2", "0", "0">>
          [] v = "0"     -> <<"0">>
          [] v = "1"     -> <<"1">>
          [] v = "bogus" -> <<"b", "o", "g", "u", "s">>
          [] OTHER       -> <<>>]

\* String.prototype.endsWith
endsWith(value, suffix) ==
    LET s == Chars[value]
        n == Len(s)
        k == Len(suffix)
    IN  k <= n /\ SubSeq(s, n - k + 1, n) = suffix

\* Length of the longest prefix of s, from position i on, made of digits.
RECURSIVE DigitRun(_, _)
DigitRun(s, i) ==
    IF i <= Len(s) /\ IsDigit(s[i]) THEN 1 + DigitRun(s, i + 1) ELSE 0

RECURSIVE DigitsValue(_, _, _)
DigitsValue(s, from, count) ==
    IF count = 0 THEN 0
    ELSE 10 * DigitsValue(s, from, count - 1) + DigitVal(s[from + count - 1])

\* parseInt(value, 10) for unsigned input: the leading digits, NaN if none.
parseInt(value) ==
    LET s == Chars[value]
        k == DigitRun(s, 1)
    IN  IF k = 0 THEN NaN ELSE Num(DigitsValue(s, 1, k))

\* parseFloat(value) for unsigned input without exponent: the longest prefix
\* digits [. digits] holding at least one digit, NaN if there is none.
parseFloat(value) ==
    LET s == Chars[value]
        k == DigitRun(s, 1)
        dot == k + 1 <= Len(s) /\ s[k + 1] = "."
        f == IF dot THEN DigitRun(s, k + 2) ELSE 0
    IN  IF k + f = 0 THEN NaN
        ELSE Add(Num(DigitsValue(s, 1, k)),
                 Frac(DigitsValue(s, k + 2, f), Pow10(f)))

\* this.options.viewportPosition
viewportPosition == Frac(3, 4)

\* parseThreshold dividing a pixel value by the height the page loaded with.
parseThresholdAtLoadHeight(value, innerHeight) ==
    IF ~Truthy(value) THEN viewportPosition
    ELSE IF endsWith(value, <<"p", "x">>) THEN Div(parseInt(value), Num(800))
    ELSE LET parsed == parseFloat(value)
         IN  IF ~isNaN(parsed) THEN parsed ELSE viewportPosition

parseThreshold(value, innerHeight) ==
    IF ~Truthy(value) THEN viewportPosition
    ELSE IF endsWith(value, <<"p", "x">>) THEN Div(parseInt(value), Num(innerHeight))
    ELSE LET parsed == parseFloat(value)
         IN  IF ~isNaN(parsed) THEN parsed ELSE viewportPosition

\* parseStaggerDelay testing the suffix "s" before the suffix "ms".
parseStaggerDelaySecondsFirst(value) ==
    IF ~Truthy(value) THEN Num(0)
    ELSE IF endsWith(value, <<"s">>) THEN Mul(parseFloat(value), Num(1000))
    ELSE parseFloat(value)

parseStaggerDelay(value) ==
    IF ~Truthy(value) THEN Num(0)
    ELSE IF endsWith(value, <<"m", "s">>) THEN parseFloat(value)
    ELSE IF endsWith(value, <<"s">>) THEN Mul(parseFloat(value), Num(1000))
    ELSE parseFloat(value)

----------------------------------------------------------------------------
(* The host page: a document of elements in document order *)

\* Number of direct children of the delegating container carrying class
\* "card" (the container holds one more card, nested in a wrapper child).
NumCards == 2

\* Window heights the visitor switches between (window.innerHeight).
Heights == {800, 1000}

\* Scroll offsets of the page, one rendering frame apart.
ScrollYs == <<100, 550, 650, 1300>>

El(ac, thr, rev, ch, st, par, cl, top) ==
    [animClass |-> ac, threshold |-> thr, reverse |-> rev, children |-> ch,
     stagger |-> st, parent |-> par, classes |-> cl, pageTop |-> top,
     height |-> 200, debug |-> Null]

\* The element e with data-scroll-debug="true".
Debugged(e) == [e EXCEPT !.debug = "true"]

Plain(par, cl) == El(Null, Null, Null, Null, Null, par, cl, 0)

\* One animated element.
SoloPage(rev, cl) == <<El("fade-in", "0.5", rev, Null, Null, 0, cl, 1000)>>

\* Two animated elements, a fraction threshold and a pixel threshold.
PairPage ==
    <<El("fade-in", "0.5", "true", Null, Null, 0, {}, 1000),
      El("fade-in", "400px", Null, Null, Null, 0, {}, 1050)>>

\* A container (element 1) delegating to its children: NumCards cards, then a
\* wrapper without class that holds one more card.
FamilyPage(ch, st, rev) ==
    <<El("fade-in", "0.5", rev, ch, st, 0, {}, 1000)>>
    \o [i \in 1..NumCards |-> Plain(1, {"card"})]
    \o <<Plain(1, {}), Plain(NumCards + 2, {"card"})>>

ReverseValues == {Null, "true", "false", "fade-out"}

\* Pages whose animations need no timer.
Pages ==
    {SoloPage(r, {}) : r \in ReverseValues}
    \cup {SoloPage("fade-out", {"fade-out"}), PairPage}
    \cup {FamilyPage("true", Null, r) : r \in ReverseValues}

\* Threshold attributes: absent, pixels, another unit, fractions (the ends
\* of the range among them), and two values that hold no number.
ThresholdValues == {Null, "150px", "10rem", "0.25", "0", "1", "abc", "px"}

\* An element with the threshold under study, followed by an ordinary one.
ThresholdPage(thr) ==
    <<El("fade-in", thr, "true", Null, Null, 0, {}, 1000),
      El("fade-in", "0.5", Null, Null, Null, 0, {}, 1050)>>

ThresholdPages == {ThresholdPage(thr) : thr \in ThresholdValues}

\* Most pairs of debug lines, drawn or waiting to be drawn, that the host
\* script lets a page come to.
MaxDebugPairs == 2

\* The page doc with data-scroll-debug="true" on its first element.
DebugPage(doc) == [doc EXCEPT ![1] = Debugged(@)]

\* Pages in debug mode: an element alone, one that carries its class from
\* the start, and containers delegating to their children (the second by a
\* class that only debug lines bear).
DebugPages ==
    {DebugPage(SoloPage("true", {})),
     DebugPage(SoloPage("true", {"fade-in"})),
     DebugPage(FamilyPage("true", Null, "fade-out")),
     DebugPage(FamilyPage("scroll-animation-debug", Null, "true"))}

\* Pages for the required attribute: an element whose animation-class
\* attribute is empty beside a complete one, and a delegating container.
AttributePages ==
    {<<El("", "0.5", "true", Null, Null, 0, {}, 1000),
       El("fade-in", "0.5", "true", Null, Null, 0, {}, 1050)>>,
     FamilyPage("true", Null, "fade-out")}

\* Containers in debug mode delegating to their children, to the descendants
\* of class "card", to a class that only debug lines bear, and with a stagger.
DelegationPages ==
    {DebugPage(FamilyPage("true", Null, "fade-out")),
     DebugPage(FamilyPage("card", Null, "true")),
     DebugPage(FamilyPage("scroll-animation-debug", Null, "true")),
     DebugPage(FamilyPage("true", "100ms", "fade-out")),
     DebugPage(FamilyPage("card", "0.1s", "true"))}

\* Stagger attributes: absent, without a number, zero, a bare number, in
\* milliseconds and in seconds.
StaggerValues == {Null, "abc", "0", "200", "100ms", "0.1s"}

StaggerValuePages == {FamilyPage("true", st, "true") : st \in StaggerValues}

\* Pages with a staggered container.
StaggerPages ==
    {FamilyPage("card", "100ms", r) : r \in ReverseValues}
    \cup {FamilyPage("true", "0.1s", "fade-out")}

----------------------------------------------------------------------------
VARIABLES
    page,                \* the document: its elements and their attributes
    innerHeight,         \* window.innerHeight
    scroll,              \* index into ScrollYs
    loaded,              \* the window load event has fired
    listening,           \* debouncedRefresh is registered as resize listener
    debounceTimer,       \* ms left on the debounce timeout, -1 when none
    positionObservers,   \* this.positionObservers: position -> observer id
    observedElements,    \* this.observedElements
    observedThresholds,  \* this.observedThresholds: element -> position
    hasAnimatedIn,       \* this.hasAnimatedIn
    childrenAnimations,  \* this.childrenAnimations: parent -> timeout ids
    io,                  \* connected IntersectionObservers: id -> [margin, targets]
    timers,              \* pending setTimeout callbacks of animateChildren
    debugLines,          \* this.debugLines: element -> its pair of lines
    lines,               \* debug lines in the document: node -> [owner]
    rafQueue,            \* requestAnimationFrame callbacks, in request order
    classList,           \* element or debug line -> its classes
    hist                 \* history: clocks and flags the properties read

vars ==
    <<page, innerHeight, scroll, loaded, listening, debounceTimer,
      positionObservers, observedElements, observedThresholds, hasAnimatedIn,
      childrenAnimations, io, timers, debugLines, lines, rafQueue, classList,
      hist>>

Elements == DOMAIN page

Range(f) == {f[k] : k \in DOMAIN f}

Min(S) == CHOOSE m \in S : \A k \in S : m <= k

\* A fresh object identity: the least number not in use.
FreshId(used) == Min((1..(Cardinality(used) + 1)) \ used)

\* The engine's maps and the browser objects they refer to, as one value.
Cur ==
    [positionObservers |-> positionObservers,
     observedElements |-> observedElements,
     observedThresholds |-> observedThresholds,
     hasAnimatedIn |-> hasAnimatedIn,
     childrenAnimations |-> childrenAnimations,
     listening |-> listening,
     io |-> io,
     timers |-> timers,
     debugLines |-> debugLines,
     lines |-> lines,
     rafQueue |-> rafQueue,
     classList |-> classList,
     log |-> <<>>,
     threw |-> FALSE]

Ev(op, el, dir) == [op |-> op, el |-> el, dir |-> dir]

Logged(S, e) == [S EXCEPT !.log = Append(@, e)]

\* f with key k set to v (Map.prototype.set).
MapSet(f, k, v) == [j \in DOMAIN f \cup {k} |-> IF j = k THEN v ELSE f[j]]

Empty == <<>>

----------------------------------------------------------------------------
(* Geometry and the IntersectionObserver of the browser *)

\* entry.boundingClientRect.top
Top(el) == page[el].pageTop - ScrollYs[scroll]

\* The root rectangle of an observer at window height h: the viewport shrunk
\* by the rootMargin <<top, bottom>> it was created with.
BandTop(margin) == Neg(margin[1])
BandBottom(margin, h) == Add(Num(h), margin[2])

\* Step "update intersection observations": target and root rectangle
\* intersect (touching edges count, threshold 0).
IsIntersecting(el, margin, h) ==
    /\ Leq(BandTop(margin), BandBottom(margin, h))
    /\ Leq(Num(Top(el)), BandBottom(margin, h))
    /\ Leq(BandTop(margin), Num(Top(el) + page[el].height))

Side(el, margin, h) == IF IsIntersecting(el, margin, h) THEN "in" ELSE "out"

\* The registrations whose state changed since the last notification: the
\* browser owes a callback entry for each.
Owed(ios, h) ==
    {<<id, el>> \in UNION {{id} \X DOMAIN ios[id].targets : id \in DOMAIN ios} :
        ios[id].targets[el] # Side(el, ios[id].margin, h)}

----------------------------------------------------------------------------
(* The engine: each operator maps the state value S to the state after the  *)
(* call, as the method of the same name does                                *)

\* A rootMargin whose band is two units tall.
RootMarginTwoUnits(position, h) ==
    LET triggerLinePosition == Mul(Num(h), position)
    IN  <<Neg(triggerLinePosition),
          Neg(Add(Add(Num(h), Neg(triggerLinePosition)), Num(-2)))>>

\* rootMargin of the observer for a position: <<topMargin, bottomMargin>>.
RootMargin(position, h) ==
    LET triggerLinePosition == Mul(Num(h), position)
    IN  <<Neg(triggerLinePosition),
          Neg(Add(Add(Num(h), Neg(triggerLinePosition)), Num(-1)))>>

\* new IntersectionObserver throws a SyntaxError on a rootMargin such as
\* "NaNpx 0px NaNpx 0px".
createPositionObserver(S, position, h) ==
    IF position \in DOMAIN S.positionObservers THEN S
    ELSE IF isNaN(position) THEN [S EXCEPT !.threw = TRUE]
    ELSE LET id == FreshId(DOMAIN S.io \cup Range(S.positionObservers))
         IN  [S EXCEPT
                !.io = MapSet(@, id, [margin |-> RootMargin(position, h),
                                      targets |-> Empty]),
                !.positionObservers = MapSet(@, position, id)]

\* observer.observe(element): a target already observed stays as it is; a new
\* one has no previous state, so its first entry is always delivered.
Observe(S, id, el) ==
    IF el \in DOMAIN S.io[id].targets THEN S
    ELSE [S EXCEPT !.io[id].targets = MapSet(@, el, "none")]

\* The frames waitForStable lets pass before it draws.
SettleFrames == 5

\* The first call of waitForStable, made by init: it counts one frame and
\* asks for the next. The callback drawing for el waits in the queue.
waitForStable(S, el) ==
    [S EXCEPT !.rafQueue = Append(@, [el |-> el, frames |-> 1])]

\* drawDebugLines: the threshold line goes into the body and the trigger
\* line, a new node bearing the two debug classes (its label bears the second
\* too), into the element; the node stands for the pair.
drawDebugLines(S, el) ==
    LET node == Len(page) + FreshId({n - Len(page) : n \in DOMAIN S.lines})
    IN  [S EXCEPT
           !.lines = MapSet(@, node, [owner |-> el]),
           !.classList = MapSet(@, node, {"scroll-animation-trigger-line",
                                          "scroll-animation-debug"}),
           !.debugLines = MapSet(@, el, node)]

\* An animation frame: the callbacks requested since the last one run in the
\* order they were requested; each counts a frame and asks again, or draws.
RECURSIVE RunFrame(_, _, _)
RunFrame(S, queue, i) ==
    IF i > Len(queue) THEN S
    ELSE IF queue[i].frames < SettleFrames
    THEN RunFrame([S EXCEPT !.rafQueue =
                      Append(@, [queue[i] EXCEPT !.frames = @ + 1])],
                  queue, i + 1)
    ELSE RunFrame(drawDebugLines(S, queue[i].el), queue, i + 1)

\* The body of the forEach of init without the test of line 200.
InitElementWithoutClassCheck(S, el, h) ==
    LET position == parseThreshold(page[el].threshold, h)
        S1 == createPositionObserver(S, position, h)
        S2 == Observe(S1, S1.positionObservers[position], el)
    IN  [S2 EXCEPT
           !.observedElements = @ \cup {el},
           !.observedThresholds = MapSet(@, el, position)]

\* The body of the forEach of init for one element.
InitElement(S, el, h) ==
    LET animationClass == page[el].animClass
        position == parseThreshold(page[el].threshold, h)
        S1 == createPositionObserver(S, position, h)
        S2 == Observe(S1, S1.positionObservers[position], el)
        S3 == [S2 EXCEPT
                 !.observedElements = @ \cup {el},
                 !.observedThresholds = MapSet(@, el, position)]
    IN  IF ~Truthy(animationClass) \/ animationClass \in S.classList[el] THEN S
        ELSE IF S1.threw THEN S1
        ELSE IF page[el].debug = "true" THEN waitForStable(S3, el)
        ELSE S3

\* The elements document.querySelectorAll('[data-scroll-animation-class]')
\* returns, visited in document order from el on; an exception ends the loop.
RECURSIVE InitFrom(_, _, _)
InitFrom(S, el, h) ==
    IF el > Len(page) \/ S.threw THEN S
    ELSE IF page[el].animClass = Null THEN InitFrom(S, el + 1, h)
    ELSE InitFrom(InitElement(S, el, h), el + 1, h)

init(S, h) == InitFrom(Logged(S, Ev("init", 0, "")), 1, h)

\* The last two lines of destroy: every pair of lines held in debugLines
\* leaves the document, and the map is cleared.
RemoveDebugLines(S) ==
    LET held == Range(S.debugLines)
    IN  [S EXCEPT
           !.lines = [n \in DOMAIN @ \ held |-> @[n]],
           !.classList = [n \in DOMAIN @ \ held |-> @[n]],
           !.debugLines = Empty]

\* destroy that leaves the observers connected.
destroyWithoutDisconnect(S) ==
    Logged(RemoveDebugLines(
             [S EXCEPT !.listening = FALSE, !.positionObservers = Empty,
                       !.observedElements = {}, !.observedThresholds = Empty,
                       !.hasAnimatedIn = {},
                       !.timers = {t \in @ : t.id \notin
                                      UNION Range(S.childrenAnimations)},
                       !.childrenAnimations = Empty]),
           Ev("destroy", 0, ""))

\* destroy that leaves hasAnimatedIn as it is.
destroyKeepsAnimatedIn(S) ==
    Logged(RemoveDebugLines(
             [S EXCEPT !.listening = FALSE,
                       !.io = [id \in DOMAIN @ \ Range(S.positionObservers) |-> @[id]],
                       !.positionObservers = Empty,
                       !.observedElements = {}, !.observedThresholds = Empty,
                       !.timers = {t \in @ : t.id \notin
                                      UNION Range(S.childrenAnimations)},
                       !.childrenAnimations = Empty]),
           Ev("destroy", 0, ""))

\* destroy that clears childrenAnimations without clearing the timeouts.
destroyKeepsTimeouts(S) ==
    Logged(RemoveDebugLines(
             [S EXCEPT !.listening = FALSE,
                       !.io = [id \in DOMAIN @ \ Range(S.positionObservers) |-> @[id]],
                       !.positionObservers = Empty,
                       !.observedElements = {}, !.observedThresholds = Empty,
                       !.hasAnimatedIn = {},
                       !.childrenAnimations = Empty]),
           Ev("destroy", 0, ""))

destroy(S) ==
    LET held == UNION Range(S.childrenAnimations)
        S1 == [S EXCEPT
                 !.listening = FALSE,
                 !.io = [id \in DOMAIN @ \ Range(S.positionObservers) |-> @[id]],
                 !.positionObservers = Empty,
                 !.observedElements = {},
                 !.observedThresholds = Empty,
                 !.hasAnimatedIn = {},
                 !.timers = {t \in @ : t.id \notin held},
                 !.childrenAnimations = Empty]
    IN  Logged(RemoveDebugLines(S1), Ev("destroy", 0, ""))

refresh(S, h) == init(destroy(S), h)

\* el is inside parent.
RECURSIVE IsDescendant(_, _)
IsDescendant(el, parent) ==
    /\ page[el].parent # 0
    /\ (page[el].parent = parent \/ IsDescendant(page[el].parent, parent))

\* A filter that lets debug lines through.
IsDebugIgnored(S, el) == FALSE

IsDebug(S, el) ==
    \/ "scroll-animation-trigger-line" \in S.classList[el]
    \/ "scroll-animation-debug" \in S.classList[el]

\* The set of elements as the sequence in document order.
RECURSIVE InOrder(_)
InOrder(els) ==
    IF els = {} THEN <<>> ELSE <<Min(els)>> \o InOrder(els \ {Min(els)})

\* parent.children: the child elements of the page and the trigger line
\* drawn into the parent, which is its last child.
Children(S, parent) ==
    {el \in Elements : page[el].parent = parent}
    \cup {n \in DOMAIN S.lines : S.lines[n].owner = parent}

\* The nodes inside parent: elements of the page and trigger lines.
Descendants(S, parent) ==
    {el \in Elements : IsDescendant(el, parent)}
    \cup {n \in DOMAIN S.lines :
             S.lines[n].owner = parent \/ IsDescendant(S.lines[n].owner, parent)}

\* The elements animateChildren toggles, in document order.
Targets(S, parent) ==
    LET childrenAttr == page[parent].children
    IN  IF Truthy(childrenAttr) /\ childrenAttr # "true"
        THEN InOrder({el \in Descendants(S, parent) :
                        childrenAttr \in S.classList[el] /\ ~IsDebug(S, el)})
        ELSE InOrder({el \in Children(S, parent) : ~IsDebug(S, el)})

\* The class changes of one element on enter (animateIn) or exit.
Toggle(classes, animateIn, animationClass, reverseAttr) ==
    LET reverseClass == IF Truthy(reverseAttr) /\ reverseAttr # "true"
                        THEN reverseAttr ELSE Null
    IN  IF animateIn
        THEN (classes \cup {animationClass}) \ {reverseClass}
        ELSE IF Truthy(reverseAttr)
        THEN (classes \ {animationClass})
             \cup (IF reverseClass # Null THEN {reverseClass} ELSE {})
        ELSE classes

\* The delay setTimeout waits for: NaN and negative numbers count as 0.
TimerDelay(delay) ==
    IF isNaN(delay) \/ delay[1] < 0 THEN 0 ELSE Trunc(delay)

\* One round of the forEach of animateChildren, for elements[i].
RECURSIVE FanOut(_, _, _, _, _, _)
FanOut(S, parent, elements, i, animateIn, timeouts) ==
    LET element == elements[i]
        staggerAttr == page[parent].stagger
        staggerDelay == IF Truthy(staggerAttr)
                        THEN parseStaggerDelay(staggerAttr) ELSE Num(0)
        id == FreshId({t.id : t \in S.timers}
                      \cup UNION Range(S.childrenAnimations) \cup timeouts)
        timeout == [id |-> id, parent |-> parent, el |-> element, index |-> i - 1,
                    rem |-> TimerDelay(Mul(Num(i - 1), staggerDelay)),
                    animateIn |-> animateIn]
    IN  IF i > Len(elements)
        THEN IF timeouts # {}
             THEN [S EXCEPT !.childrenAnimations = MapSet(@, parent, timeouts)]
             ELSE S
        ELSE IF ~Truthy(staggerAttr)
        THEN FanOut([S EXCEPT !.classList[element] =
                        Toggle(@, animateIn, page[parent].animClass,
                               page[parent].reverse)],
                    parent, elements, i + 1, animateIn, timeouts)
        ELSE FanOut([S EXCEPT !.timers = @ \cup {timeout}],
                    parent, elements, i + 1, animateIn, timeouts \cup {id})

\* A fan-out that leaves the previous schedule's timeouts pending.
CancelPendingSkipped(S, parent) == S

\* The timeouts of the parent's previous schedule are cleared.
CancelPending(S, parent) ==
    IF parent \in DOMAIN S.childrenAnimations
    THEN [S EXCEPT !.timers =
             {t \in @ : t.id \notin S.childrenAnimations[parent]}]
    ELSE S

animateChildren(S, parent, animateIn) ==
    FanOut(Logged(CancelPending(S, parent),
                  Ev("fanout", parent, IF animateIn THEN "in" ELSE "out")),
           parent, Targets(S, parent), 1, animateIn, {})

\* A timeout callback that never adds the reverse class.
TimeoutCallbackWithoutReverse(S, t) ==
    [S EXCEPT !.classList[t.el] =
        Toggle(@, t.animateIn, page[t.parent].animClass,
               IF Truthy(page[t.parent].reverse) THEN "true" ELSE Null)]

\* The callback of a scheduled timeout.
TimeoutCallback(S, t) ==
    [S EXCEPT !.classList[t.el] =
        Toggle(@, t.animateIn, page[t.parent].animClass, page[t.parent].reverse)]

\* reverseClass, as the set of the classes it names.
ReverseClass(reverseAttr) ==
    IF Truthy(reverseAttr) /\ reverseAttr # "true" THEN {reverseAttr} ELSE {}

\* The enter branch for an element that animates itself.
EnterSelfKeepsReverse(S, element) ==
    [S EXCEPT !.classList[element] = @ \cup {page[element].animClass}]

EnterSelf(S, element) ==
    [S EXCEPT !.classList[element] =
        (@ \cup {page[element].animClass}) \ ReverseClass(page[element].reverse)]

\* The exit branch for an element that animates itself.
ExitSelf(S, element) ==
    [S EXCEPT !.classList[element] =
        (@ \ {page[element].animClass}) \cup ReverseClass(page[element].reverse)]

\* The condition of the exit branch.
ExitAllowedWithoutReverse(S, element) == element \in S.hasAnimatedIn

ExitAllowed(S, element) ==
    Truthy(page[element].reverse) /\ element \in S.hasAnimatedIn

\* handleIntersection for one entry: its target and boundingClientRect.top.
handleIntersection(S, element, elementTop, h) ==
    LET animationClass == page[element].animClass
        threshold == IF element \in DOMAIN S.observedThresholds
                     THEN S.observedThresholds[element] ELSE viewportPosition
        triggerLine == Mul(Num(h), threshold)
        childrenAttr == page[element].children
        delegates == Truthy(childrenAttr) /\ childrenAttr # "false"
        entered == [S EXCEPT !.hasAnimatedIn = @ \cup {element}]
    IN  IF ~Truthy(animationClass) THEN Logged(S, Ev("skip", element, ""))
        ELSE IF Leq(Num(elementTop), triggerLine)
        THEN IF ~delegates
             THEN Logged(EnterSelf(entered, element), Ev("enter", element, ""))
             ELSE animateChildren(Logged(entered, Ev("enter", element, "")),
                                  element, TRUE)
        ELSE IF ExitAllowed(S, element)
        THEN IF ~delegates
             THEN Logged(ExitSelf(S, element), Ev("exit", element, ""))
             ELSE animateChildren(Logged(S, Ev("exit", element, "")),
                                  element, FALSE)
        ELSE Logged(S, Ev("none", element, ""))

----------------------------------------------------------------------------
(* History kept for the properties (no effect on the engine) *)

\* debounce(this.refresh.bind(this), 200), in ms
DebounceDelay == 200

\* Time advances in steps of this many ms.
TimeSteps == {100}

\* The clock of a fan-out stops counting at the last target's delay.
FanCap == NumCards * 100

Ops(S) == {S.log[k] : k \in DOMAIN S.log}

Did(S, op) == \E e \in Ops(S) : e.op = op

\* hist after a step of the engine that led from the current state to S,
\* H being hist with the step's own changes made.
\*   enterSeen    elements that handled an ENTER since the last teardown
\*   everEntered  elements that handled an ENTER at any time
\*   fan          parent -> direction of and time since its latest fan-out
\*   stale        pending timeouts of a schedule that a later fan-out of the
\*                same parent, or a teardown, has superseded
\*   worn         element -> every class it has carried at some time
\*   steady       watchers created at the present window height, which has
\*                not changed since
Track(S, H) ==
    LET fanouts == {e \in Ops(S) : e.op = "fanout"}
        enters == {e.el : e \in {d \in Ops(S) : d.op = "enter"}}
        superseded == {t.id : t \in {u \in timers :
                          Did(S, "destroy") \/ \E e \in fanouts : e.el = u.parent}}
    IN  [H EXCEPT
           !.enterSeen = IF Did(S, "destroy") THEN {} ELSE @ \cup enters,
           !.everEntered = @ \cup enters,
           !.fan = [p \in (IF Did(S, "destroy") THEN {} ELSE DOMAIN @)
                          \cup {e.el : e \in fanouts} |->
                      IF \E e \in fanouts : e.el = p
                      THEN [dir |-> (CHOOSE e \in fanouts : e.el = p).dir,
                            elapsed |-> 0]
                      ELSE @[p]],
           !.stale = (@ \cup superseded) \cap {t.id : t \in S.timers},
           !.worn = [el \in DOMAIN @ |-> @[el] \cup S.classList[el]],
           !.steady = IF Did(S, "destroy") THEN DOMAIN S.io
                      ELSE (@ \cap DOMAIN S.io) \cup (DOMAIN S.io \ DOMAIN io)]

\* The next state holds the engine state S and the history H.
Commit(S, H) ==
    /\ positionObservers' = S.positionObservers
    /\ observedElements' = S.observedElements
    /\ observedThresholds' = S.observedThresholds
    /\ hasAnimatedIn' = S.hasAnimatedIn
    /\ childrenAnimations' = S.childrenAnimations
    /\ listening' = S.listening
    /\ io' = S.io
    /\ timers' = S.timers
    /\ debugLines' = S.debugLines
    /\ lines' = S.lines
    /\ rafQueue' = S.rafQueue
    /\ classList' = S.classList
    /\ hist' = Track(S, H)

----------------------------------------------------------------------------
(* The state after the script has run: the constructor, then the singleton *)

InitOn(pages) ==
    /\ page \in pages
    /\ innerHeight = 800
    /\ scroll = 1
    /\ loaded = FALSE
    /\ listening = TRUE
    /\ debounceTimer = -1
    /\ positionObservers = Empty
    /\ observedElements = {}
    /\ observedThresholds = Empty
    /\ hasAnimatedIn = {}
    /\ childrenAnimations = Empty
    /\ io = Empty
    /\ timers = {}
    /\ debugLines = Empty
    /\ lines = Empty
    /\ rafQueue = <<>>
    /\ classList = [el \in DOMAIN page |-> page[el].classes]
    /\ hist = [torn |-> FALSE, owed |-> FALSE, sinceResize |-> -1,
               enterSeen |-> {}, everEntered |-> {}, fan |-> Empty,
               stale |-> {},
               worn |-> [el \in DOMAIN page |-> page[el].classes],
               steady |-> {}]

Init == InitOn(Pages)

\* window load: () => this.init()
Load ==
    /\ ~loaded
    /\ loaded' = TRUE
    /\ Commit(init(Cur, innerHeight), hist)
    /\ UNCHANGED <<page, innerHeight, scroll, debounceTimer>>

\* The browser has delivered every entry it owes.
Settled == Owed(io, innerHeight) = {}

\* The visitor scrolls the page by one frame's worth.
Scroll ==
    /\ Settled
    /\ \E k \in {scroll - 1, scroll + 1} \cap DOMAIN ScrollYs : scroll' = k
    /\ UNCHANGED <<page, innerHeight, loaded, listening, debounceTimer,
                   positionObservers, observedElements, observedThresholds,
                   hasAnimatedIn, childrenAnimations, io, timers, debugLines,
                   lines, rafQueue, classList, hist>>

\* The visitor moves the page to any other offset within one frame (a jump
\* to an anchor, a dragged scroll bar, a key): the browser computes the
\* intersections once, at the new offset.
Jump ==
    /\ Settled
    /\ \E k \in DOMAIN ScrollYs \ {scroll} : scroll' = k
    /\ UNCHANGED <<page, innerHeight, loaded, listening, debounceTimer,
                   positionObservers, observedElements, observedThresholds,
                   hasAnimatedIn, childrenAnimations, io, timers, debugLines,
                   lines, rafQueue, classList, hist>>

\* The window is resized: the resize event runs debouncedRefresh if it is
\* still registered, which restarts the timeout.
Resize ==
    /\ Settled
    /\ \E h \in Heights \ {innerHeight} : innerHeight' = h
    /\ debounceTimer' = IF listening THEN DebounceDelay ELSE debounceTimer
    /\ hist' = [hist EXCEPT !.owed = TRUE, !.sinceResize = 0, !.steady = {}]
    /\ UNCHANGED <<page, scroll, loaded, listening,
                   positionObservers, observedElements, observedThresholds,
                   hasAnimatedIn, childrenAnimations, io, timers, debugLines,
                   lines, rafQueue, classList>>

\* The engine state after the browser has notified an observer of the entry
\* it owes for pair = <<observer, target>>: the target's state is recorded
\* and the callback runs with the target's current rectangle.
NotifyResult(pair) ==
    LET id == pair[1]
        el == pair[2]
        S == [Cur EXCEPT !.io[id].targets[el] =
                            Side(el, io[id].margin, innerHeight)]
    IN  handleIntersection(S, el, Top(el), innerHeight)

NotifyStep(pair) ==
    /\ Commit(NotifyResult(pair), hist)
    /\ UNCHANGED <<page, innerHeight, scroll, loaded, debounceTimer>>

Notify == \E pair \in Owed(io, innerHeight) : NotifyStep(pair)

Bump(clock, dt, cap) ==
    IF clock < 0 THEN clock ELSE IF clock + dt > cap THEN cap ELSE clock + dt

\* Time passes while no timeout is due.
Tick ==
    \E dt \in TimeSteps :
        /\ Settled
        /\ debounceTimer = -1 \/ debounceTimer >= dt
        /\ \A t \in timers : t.rem >= dt
        /\ debounceTimer' = IF debounceTimer = -1 THEN -1 ELSE debounceTimer - dt
        /\ timers' = {[t EXCEPT !.rem = @ - dt] : t \in timers}
        /\ hist' = [hist EXCEPT
                      !.sinceResize = Bump(@, dt, DebounceDelay),
                      !.fan = [p \in DOMAIN @ |->
                                 [@[p] EXCEPT !.elapsed = Bump(@, dt, FanCap)]]]
        /\ UNCHANGED <<page, innerHeight, scroll, loaded, listening,
                       positionObservers, observedElements, observedThresholds,
                       hasAnimatedIn, childrenAnimations, io, debugLines,
                       lines, rafQueue, classList>>

\* The debounce timeout fires: fn(...args), that is refresh().
DebounceFire ==
    /\ debounceTimer = 0
    /\ debounceTimer' = -1
    /\ Commit(refresh(Cur, innerHeight),
              [hist EXCEPT !.owed = FALSE, !.sinceResize = -1])
    /\ UNCHANGED <<page, innerHeight, scroll, loaded>>

\* A timeout of animateChildren fires; timeouts due at the same time fire in
\* the order they were set.
TimeoutStep(t) ==
    /\ t.rem = 0
    /\ \A u \in timers : u.parent = t.parent /\ u.rem = 0 => u.index >= t.index
    /\ Commit(TimeoutCallback([Cur EXCEPT !.timers = @ \ {t}], t), hist)
    /\ UNCHANGED <<page, innerHeight, scroll, loaded, debounceTimer>>

TimeoutFire == \E t \in timers : TimeoutStep(t)

\* An animation frame of the browser with callbacks waiting for it.
Frame ==
    /\ rafQueue # <<>>
    /\ Commit(RunFrame([Cur EXCEPT !.rafQueue = <<>>], rafQueue, 1), hist)
    /\ UNCHANGED <<page, innerHeight, scroll, loaded, debounceTimer>>

\* The host script stops calling the engine on a page that holds
\* MaxDebugPairs pairs of debug lines, drawn or waiting.
WithinBounds(S) ==
    Len(S.rafQueue) + Cardinality(DOMAIN S.lines) <= MaxDebugPairs

\* The host script calls window.attrScrollAnimation.init().
HostInit ==
    /\ WithinBounds(init(Cur, innerHeight))
    /\ Commit(init(Cur, innerHeight), [hist EXCEPT !.torn = FALSE])
    /\ UNCHANGED <<page, innerHeight, scroll, loaded, debounceTimer>>

\* The host script calls window.attrScrollAnimation.refresh().
HostRefresh ==
    /\ WithinBounds(refresh(Cur, innerHeight))
    /\ Commit(refresh(Cur, innerHeight),
              [hist EXCEPT !.torn = FALSE, !.owed = FALSE, !.sinceResize = -1])
    /\ UNCHANGED <<page, innerHeight, scroll, loaded, debounceTimer>>

\* The host script calls window.attrScrollAnimation.destroy().
HostDestroy ==
    /\ Commit(destroy(Cur), [hist EXCEPT !.torn = TRUE])
    /\ UNCHANGED <<page, innerHeight, scroll, loaded, debounceTimer>>

\* The page, its visitor, the browser and the host script.
Next ==
    \/ Load
    \/ Scroll
    \/ Resize
    \/ Notify
    \/ Tick
    \/ DebounceFire
    \/ HostInit
    \/ HostRefresh
    \/ HostDestroy

Spec == Init /\ [][Next]_vars

\* A page whose host script never calls the engine.
NextVisitor ==
    \/ Load
    \/ Scroll
    \/ Resize
    \/ Notify
    \/ Tick
    \/ DebounceFire

SpecVisitor == Init /\ [][NextVisitor]_vars

\* A page whose first element carries one of the threshold attributes.
InitThreshold == InitOn(ThresholdPages)

SpecThreshold == InitThreshold /\ [][NextVisitor]_vars

\* The host script removes data-scroll-animation-class from an element.
HostRemoveClassAttribute ==
    /\ \E el \in Elements :
          /\ Truthy(page[el].animClass)
          /\ page' = [page EXCEPT ![el].animClass = Null]
    /\ UNCHANGED <<innerHeight, scroll, loaded, listening, debounceTimer,
                   positionObservers, observedElements, observedThresholds,
                   hasAnimatedIn, childrenAnimations, io, timers, debugLines,
                   lines, rafQueue, classList, hist>>

\* A page whose host script edits the required attribute.
InitAttribute == InitOn(AttributePages)

NextAttribute ==
    \/ Load
    \/ Scroll
    \/ Notify
    \/ HostRemoveClassAttribute
    \/ HostInit
    \/ HostRefresh

SpecAttribute == InitAttribute /\ [][NextAttribute]_vars

\* A delegating container in debug mode, left to the visitor.
InitDelegation == InitOn(DelegationPages)

NextDelegation ==
    \/ Load
    \/ Scroll
    \/ Notify
    \/ Tick
    \/ TimeoutFire
    \/ Frame

SpecDelegation == InitDelegation /\ [][NextDelegation]_vars

\* A page whose visitor scrolls by steps of any size.
NextJump ==
    \/ Load
    \/ Jump
    \/ Notify

SpecJump == Init /\ [][NextJump]_vars

\* A container with one of the stagger attributes, left to the visitor.
InitStaggerValues == InitOn(StaggerValuePages)

NextStaggerValues ==
    \/ Load
    \/ Scroll
    \/ Notify
    \/ Tick
    \/ TimeoutFire

SpecStaggerValues == InitStaggerValues /\ [][NextStaggerValues]_vars

\* A page in debug mode in a window of fixed size.
InitDebug == InitOn(DebugPages)

NextDebug ==
    \/ Load
    \/ Scroll
    \/ Notify
    \/ Frame
    \/ HostInit
    \/ HostRefresh
    \/ HostDestroy

SpecDebug == InitDebug /\ [][NextDebug]_vars

\* A page with a staggered container in a window of fixed size.
InitStagger == InitOn(StaggerPages)

NextStagger ==
    \/ Load
    \/ Scroll
    \/ Notify
    \/ Tick
    \/ TimeoutFire
    \/ HostInit
    \/ HostRefresh
    \/ HostDestroy

SpecStagger == InitStagger /\ [][NextStagger]_vars

----------------------------------------------------------------------------
(* What the properties talk about *)

\* The animated element that governs el: el itself, or the nearest ancestor
\* carrying data-scroll-animation-class (0 if there is none).
RECURSIVE Gov(_)
Gov(el) ==
    IF el = 0 THEN 0
    ELSE IF page[el].animClass # Null THEN el
    ELSE Gov(page[el].parent)

Animated == {el \in Elements : page[el].animClass # Null}

Delegates(el) == page[el].children \notin {Null, "", "false"}

\* The trigger line of a registered element and the side its top is on.
BelowLine(el) ==
    /\ el \in DOMAIN observedThresholds
    /\ Top(el) * observedThresholds[el][2] > innerHeight * observedThresholds[el][1]

\* The browser has notified the engine of el's present position.
Reported(el) ==
    /\ Settled
    /\ \E id \in DOMAIN io : el \in DOMAIN io[id].targets

----------------------------------------------------------------------------
(* C1 *)

\* C1: an element governed by no reverse attribute never loses the animation
\* class and never gains a class other than the animation class, in any step
\* of the engine (any callback, at any position, in any order).
C1_NoReverseNeverExits ==
    [][\A el \in Elements :
          (Gov(el) # 0 /\ ~Truthy(page[Gov(el)].reverse)) =>
              /\ page[Gov(el)].animClass \in classList[el]
                    => page[Gov(el)].animClass \in classList'[el]
              /\ classList'[el] \ classList[el] \subseteq {page[Gov(el)].animClass}
      ]_vars

\* An element without reverse attribute has entered and has since been
\* reported below its trigger line, still carrying the class.
C1_Witness ==
    \E el \in Animated :
        /\ ~Truthy(page[el].reverse)
        /\ ~Delegates(el)
        /\ el \in hist.enterSeen
        /\ page[el].animClass \in classList[el]
        /\ BelowLine(el)
        /\ Reported(el)

----------------------------------------------------------------------------
(* C2 *)

\* C2: a callback takes the exit branch for an element only if the element
\* handled an ENTER since the last teardown; a callback below the trigger line
\* for an element that has not changes no class and schedules nothing.
C2_ExitOnlyAfterEnter ==
    [][\A pair \in Owed(io, innerHeight) :
          NotifyStep(pair) =>
              /\ Did(NotifyResult(pair), "exit") => pair[2] \in hist.enterSeen
              /\ (BelowLine(pair[2]) /\ pair[2] \notin hist.enterSeen) =>
                    /\ ~Did(NotifyResult(pair), "fanout")
                    /\ UNCHANGED <<classList, timers, childrenAnimations>>
      ]_vars

\* An element with a reverse attribute has been reported below its trigger
\* line before it ever entered.
C2_Witness ==
    \E el \in Animated :
        /\ Truthy(page[el].reverse)
        /\ el \notin hist.everEntered
        /\ BelowLine(el)
        /\ Reported(el)

----------------------------------------------------------------------------
(* C3 *)

NamesReverseClass(el) ==
    page[el].reverse \notin {Null, "", "true", "false", page[el].animClass}

\* C3: for an element that animates itself and names a reverse class R, every
\* ENTER leaves it with A and without R, every EXIT with R and without A; with
\* reverse="true" an EXIT removes A and changes nothing else.
C3_ReverseClassSwaps ==
    [][\A pair \in Owed(io, innerHeight) :
          LET el == pair[2]
              A == page[el].animClass
              R == page[el].reverse
              R1 == NotifyResult(pair)
          IN  (NotifyStep(pair) /\ ~Delegates(el)) =>
                /\ (NamesReverseClass(el) /\ Did(R1, "enter")) =>
                      A \in classList'[el] /\ R \notin classList'[el]
                /\ (NamesReverseClass(el) /\ Did(R1, "exit")) =>
                      A \notin classList'[el] /\ R \in classList'[el]
                /\ (R = "true" /\ Did(R1, "exit")) =>
                      classList'[el] = classList[el] \ {A}
                /\ \A other \in Elements \ {el} :
                      classList'[other] = classList[other]
      ]_vars

\* An element naming a reverse class has entered and then left: it carries
\* the reverse class alone.
C3_Witness ==
    \E el \in Animated :
        /\ NamesReverseClass(el)
        /\ ~Delegates(el)
        /\ page[el].classes = {}
        /\ classList[el] = {page[el].reverse}
        /\ el \in hist.enterSeen
        /\ Reported(el)

----------------------------------------------------------------------------
(* C4 *)

\* C4: reverse="false" is the same as no reverse attribute: no element it
\* governs ever gets a class named "false", and an element that entered keeps
\* the animation class.
C4_FalseMeansNoReverse ==
    \A el \in Elements :
        (Gov(el) # 0 /\ page[Gov(el)].reverse = "false") =>
            /\ "false" \notin classList[el]
            /\ (el \in hist.enterSeen /\ ~Delegates(el))
                  => page[el].animClass \in classList[el]

----------------------------------------------------------------------------
(* C5 *)

\* C5: every resize is followed by a rebuild: while a resize has not been
\* answered by a rebuild, the debounce timeout is pending (it fires after the
\* quiet period, time cannot pass it).
C5_ResizeSchedulesRebuild ==
    (hist.owed /\ ~hist.torn) => debounceTimer >= 0

----------------------------------------------------------------------------
(* C6 *)

\* C6: with a reverse attribute on an element that animates itself, once the
\* element has entered and the browser and the debounce are at rest, the
\* element does not carry the animation class while its top is below the
\* trigger line, rebuilds in between included.
C6_ReverseSurvivesRebuild ==
    \A el \in Animated :
        ( /\ page[el].reverse \in {"true", "fade-out"}
          /\ ~Delegates(el)
          /\ el \in hist.everEntered
          /\ loaded /\ ~hist.torn /\ ~hist.owed /\ debounceTimer = -1
          /\ Settled
          /\ ~Leq(Num(Top(el)),
                  Mul(Num(innerHeight),
                      parseThreshold(page[el].threshold, innerHeight))) )
        => page[el].animClass \notin classList[el]

----------------------------------------------------------------------------
(* C7 *)

\* C7: from the last resize event of a burst until the rebuild, the debounce
\* timeout is pending and due exactly DebounceDelay after that event; the
\* rebuild ends the burst, so each burst has exactly one.
C7_OneRebuildPerBurst ==
    hist.sinceResize >= 0 => debounceTimer = DebounceDelay - hist.sinceResize

----------------------------------------------------------------------------
(* C8 *)

\* The trigger line, in px, that the page asks for at window height h.
ExpectedLine(el, h) ==
    CASE page[el].threshold = "400px" -> Num(400)
      [] page[el].threshold = "0.5"   -> Frac(h, 2)
      [] OTHER                        -> Frac(3 * h, 4)

ExpectedFraction(el, h) == Div(ExpectedLine(el, h), Num(h))

ExpectedMargin(el, h) ==
    <<Neg(ExpectedLine(el, h)), Add(Add(ExpectedLine(el, h), Num(1)), Num(-h))>>

\* C8: when the debounced rebuild has run, every connected watcher is one the
\* engine created in that rebuild (none of the earlier ones is left to deliver
\* callbacks), and every registered element has the fraction and the band of
\* the window height at that time.
C8_RebuildUsesNewHeight ==
    [][DebounceFire =>
          /\ DOMAIN io' = Range(positionObservers')
          /\ \A id \in DOMAIN io' : \A el \in DOMAIN io'[id].targets :
                io'[id].targets[el] = "none" /\ el \in observedElements'
          /\ \A el \in observedElements' :
                /\ observedThresholds'[el] = ExpectedFraction(el, innerHeight')
                /\ LET id == positionObservers'[observedThresholds'[el]]
                   IN  /\ el \in DOMAIN io'[id].targets
                       /\ io'[id].margin = ExpectedMargin(el, innerHeight')
      ]_vars

\* After a resize to height 1000 and the rebuild, the element with the
\* threshold 400px is registered with the fraction 2/5.
C8_Witness ==
    \E el \in observedElements :
        /\ page[el].threshold = "400px"
        /\ innerHeight = 1000
        /\ ~listening
        /\ observedThresholds[el] = <<2, 5>>

----------------------------------------------------------------------------
(* C9 *)

\* The targets of a staggered container in document order.
ExpectedTargets(p) ==
    IF page[p].children = "card"
    THEN [i \in 1..(NumCards + 1) |-> IF i <= NumCards THEN i + 1 ELSE NumCards + 3]
    ELSE [i \in 1..(NumCards + 1) |-> i + 1]

\* C9: after a fan-out of a container with stagger 100ms and no later
\* crossing or teardown, the target at index i is toggled when i*100 ms have
\* passed: until then its timeout is pending with exactly the remaining time,
\* afterwards it carries (ENTER) or lacks (EXIT) the animation class.
C9_StaggerSchedule ==
    \A p \in DOMAIN hist.fan :
        \A i \in DOMAIN ExpectedTargets(p) :
            LET el == ExpectedTargets(p)[i]
                due == (i - 1) * 100
                pending == {t \in timers : t.parent = p /\ t.el = el}
            IN  /\ hist.fan[p].elapsed < due => pending # {}
                /\ \A t \in pending : t.rem = due - hist.fan[p].elapsed
                /\ pending = {} =>
                     (page[p].animClass \in classList[el]) = (hist.fan[p].dir = "in")

\* 100 ms after an ENTER fan-out the first two targets carry the class and
\* the third is still waiting.
C9_Witness ==
    \E p \in DOMAIN hist.fan :
        /\ hist.fan[p].dir = "in"
        /\ hist.fan[p].elapsed = 100
        /\ page[p].animClass \in classList[ExpectedTargets(p)[1]]
        /\ page[p].animClass \in classList[ExpectedTargets(p)[2]]
        /\ page[p].animClass \notin classList[ExpectedTargets(p)[3]]
        /\ \E t \in timers : t.el = ExpectedTargets(p)[3] /\ t.rem = 100

----------------------------------------------------------------------------
(* C10 *)

\* C10: no pending timeout belongs to a superseded schedule, and no target
\* has two pending timeouts of the same parent.
C10_NoStaleTimers ==
    /\ hist.stale = {}
    /\ \A t \in timers : \A u \in timers :
          (t.parent = u.parent /\ t.el = u.el) => t = u

\* An EXIT fan-out has replaced an ENTER schedule that had toggled its first
\* target only: every target waits for the new schedule alone.
C10_Witness ==
    \E p \in DOMAIN hist.fan :
        /\ hist.fan[p].dir = "out"
        /\ hist.fan[p].elapsed = 0
        /\ page[p].animClass \in classList[ExpectedTargets(p)[1]]
        /\ page[p].animClass \notin classList[ExpectedTargets(p)[2]]
        /\ \A i \in DOMAIN ExpectedTargets(p) :
              \E t \in timers : t.el = ExpectedTargets(p)[i] /\ ~t.animateIn

----------------------------------------------------------------------------
(* C11 *)

\* C11: an element carries a reverse class that the engine gave it only if
\* it has carried the animation class at some time before; this includes the
\* targets of a staggered container.
C11_ReverseOnlyAfterAnimated ==
    \A el \in Elements :
        LET g == Gov(el)
        IN  ( /\ g # 0
              /\ NamesReverseClass(g)
              /\ page[g].reverse \in classList[el]
              /\ page[g].reverse \notin page[el].classes )
            => page[g].animClass \in hist.worn[el]

----------------------------------------------------------------------------
(* C12 *)

\* Threshold attributes that hold no number.
Unparseable == {"abc", "px"}

\* C12: once the page has loaded, every animated element that does not carry
\* its class is registered (no scan was cut short by an error), and one whose
\* threshold attribute holds no number is registered with the default 0.75.
C12_MalformedFallsBack ==
    loaded =>
        \A el \in Animated :
            page[el].animClass \notin classList[el] =>
                /\ el \in observedElements
                /\ el \in DOMAIN observedThresholds
                /\ page[el].threshold \in Unparseable =>
                      observedThresholds[el] = Frac(3, 4)

----------------------------------------------------------------------------
(* C16 *)

\* The fraction a threshold attribute that holds a number stands for in a
\* window of height h.
ExpectedThreshold(thr, h) ==
    CASE thr = "150px" -> Frac(150, h)
      [] thr = "10rem" -> Num(10)
      [] thr = "0.25"  -> Frac(1, 4)
      [] thr = "0.5"   -> Frac(1, 2)
      [] thr = "0"     -> Num(0)
      [] thr = "1"     -> Num(1)
      [] thr = Null    -> Frac(3, 4)

----------------------------------------------------------------------------
(* C13 *)

\* C13: a teardown called by the host, in whatever state, leaves no watcher,
\* no registered element, no stored threshold, no has-entered flag, no stagger
\* schedule and no debug line, and a second teardown right after it changes
\* nothing more.
C13_TeardownIdempotent ==
    [][HostDestroy =>
          /\ positionObservers' = Empty /\ io' = Empty
          /\ observedElements' = {} /\ observedThresholds' = Empty
          /\ hasAnimatedIn' = {}
          /\ childrenAnimations' = Empty /\ timers' = {}
          /\ debugLines' = Empty /\ lines' = Empty
          /\ [destroy(destroy(Cur)) EXCEPT !.log = <<>>]
                = [destroy(Cur) EXCEPT !.log = <<>>]
      ]_vars

----------------------------------------------------------------------------
(* C14 *)

\* el is a target of some connected watcher.
Watched(ios, el) == \E id \in DOMAIN ios : el \in DOMAIN ios[id].targets

----------------------------------------------------------------------------
(* C15 *)

\* The watchers that observe el.
WatchersOf(ios, el) == {id \in DOMAIN ios : el \in DOMAIN ios[id].targets}

\* C15: a scan leaves an element that carries its animation class as it was
\* (no watcher, threshold or debug line is added for it), and no element is
\* ever observed by more than one watcher.
C15_NoDuplicateRegistration ==
    /\ \A el \in Elements : Cardinality(WatchersOf(io, el)) <= 1
    /\ \A el \in Animated :
          (loaded /\ page[el].animClass \in page[el].classes) =>
              /\ WatchersOf(io, el) = {}
              /\ el \notin observedElements
              /\ el \notin DOMAIN observedThresholds
              /\ el \notin DOMAIN debugLines
              /\ \A i \in DOMAIN rafQueue : rafQueue[i].el # el

----------------------------------------------------------------------------
(* C17 *)

\* The elements the page asks a delegating element to animate.
DelegatedTo(el) ==
    IF page[el].children = "true"
    THEN {x \in Elements : page[x].parent = el}
    ELSE {x \in Elements :
            IsDescendant(x, el) /\ page[el].children \in page[x].classes}

\* The step changes classes of nodes in the set only, and of no debug line.
ChangesOnly(nodes) ==
    /\ DOMAIN classList' = DOMAIN classList
    /\ \A n \in DOMAIN lines : classList'[n] = classList[n]
    /\ \A x \in DOMAIN classList : classList'[x] # classList[x] => x \in nodes

\* C17: a callback for a delegating element, and a timeout it has scheduled,
\* change no class of the element itself and none of a debug line; the only
\* nodes whose classes change or that a timeout is scheduled for are its
\* direct children (children="true") or its descendants of the named class.
C17_DelegationFrame ==
    [][/\ \A pair \in Owed(io, innerHeight) :
             (NotifyStep(pair) /\ Delegates(pair[2])) =>
                 /\ classList'[pair[2]] = classList[pair[2]]
                 /\ ChangesOnly(DelegatedTo(pair[2]))
                 /\ \A t \in timers' : t.el \in DelegatedTo(pair[2])
       /\ \A t \in timers :
             TimeoutStep(t) =>
                 /\ classList'[t.parent] = classList[t.parent]
                 /\ ChangesOnly(DelegatedTo(t.parent))
      ]_vars

\* A delegating container whose debug lines are drawn has entered: its
\* targets carry the class, the container and its trigger line do not.
C17_Witness ==
    \E el \in Animated :
        /\ Delegates(el)
        /\ el \in DOMAIN debugLines
        /\ el \in hasAnimatedIn
        /\ DelegatedTo(el) # {}
        /\ \A x \in DelegatedTo(el) : page[el].animClass \in classList[x]
        /\ page[el].animClass \notin classList[el]
        /\ page[el].animClass \notin classList[debugLines[el]]

----------------------------------------------------------------------------
(* C18 *)

\* C18: whatever the size of the scroll steps, once the browser has delivered
\* its callbacks, every watched element whose top is at or above its trigger
\* line has been entered.
C18_EveryCrossingDelivered ==
    \A el \in DOMAIN observedThresholds :
        (Settled /\ Watched(io, el) /\ ~BelowLine(el)) => el \in hasAnimatedIn

----------------------------------------------------------------------------
(* C19 *)

\* C19: a teardown (alone or as the first half of a rebuild) leaves no
\* timeout pending and no schedule stored, and from the teardown until the
\* next scan (while no watcher is connected) no class of the page changes.
C19_TeardownCancelsTimers ==
    [][/\ (HostDestroy \/ HostRefresh) =>
             (timers' = {} /\ childrenAnimations' = Empty)
       /\ io = Empty => (timers = {} /\ UNCHANGED classList)
      ]_vars

\* A teardown has cut a staggered ENTER short: the first target carries the
\* class, the second never got it, and nothing is pending.
C19_Witness ==
    /\ hist.torn
    /\ io = Empty
    /\ timers = {}
    /\ page[1].animClass \in classList[ExpectedTargets(1)[1]]
    /\ page[1].animClass \notin classList[ExpectedTargets(1)[2]]

----------------------------------------------------------------------------
(* C20 *)

\* The pairs of debug lines in the document that were drawn for el.
PairsOf(el) == {n \in DOMAIN lines : lines[n].owner = el}

\* C20: debug lines live and die with the registration they were made for:
\* every pair in the document belongs to a registered element and is the one
\* held for it in debugLines, so an element has one pair at most and none is
\* left, or drawn, after the teardown of its registration.
C20_DebugLinesOwned ==
    \A el \in Elements :
        /\ Cardinality(PairsOf(el)) <= 1
        /\ \A n \in PairsOf(el) :
              /\ el \in observedElements
              /\ el \in DOMAIN debugLines
              /\ debugLines[el] = n

----------------------------------------------------------------------------
(* C21 *)

\* C21: once the host has torn the engine down, nothing but the host's own
\* init() or refresh() (or the load event) creates a watcher or registers an
\* element; a rebuild that was pending at the teardown does not run.
C21_TeardownCancelsRebuild ==
    [][(hist.torn /\ io = Empty /\ ~(Load \/ HostInit \/ HostRefresh)) =>
          (io' = Empty /\ observedElements' = {} /\ positionObservers' = Empty)
      ]_vars

----------------------------------------------------------------------------
(* C22 *)

\* C22: the connected watchers are those of positionObservers, one for each
\* fraction stored for a registered element and no other; every registered
\* element is observed by the watcher of its stored fraction and by no other,
\* and all targets of a watcher have the same stored fraction.
C22_OneWatcherPerFraction ==
    /\ DOMAIN io = Range(positionObservers)
    /\ DOMAIN positionObservers = {observedThresholds[el] : el \in observedElements}
    /\ \A p \in DOMAIN positionObservers : \A q \in DOMAIN positionObservers :
          positionObservers[p] = positionObservers[q] => p = q
    /\ \A el \in observedElements :
          WatchersOf(io, el) = {positionObservers[observedThresholds[el]]}
    /\ \A id \in DOMAIN io :
          \A a \in DOMAIN io[id].targets :
              /\ a \in observedElements
              /\ positionObservers[observedThresholds[a]] = id

----------------------------------------------------------------------------
(* C23 *)

\* The delay in ms between two targets that a stagger attribute stands for.
ExpectedStagger(st) ==
    CASE st = "200"   -> 200
      [] st = "100ms" -> 100
      [] st = "0.1s"  -> 100
      [] OTHER        -> 0

\* C23: in the callback that fans out to the children, a stagger attribute
\* that is absent, holds no number or stands for 0 creates no timeout and
\* toggles every target at once; any other creates for the target at index
\* i a timeout of i times n ms (n for "n" and "nms", 1000 n for "ns").
C23_StaggerResolution ==
    [][\A pair \in Owed(io, innerHeight) :
          LET el == pair[2]
              d == ExpectedStagger(page[el].stagger)
              targets == ExpectedTargets(el)
              R1 == NotifyResult(pair)
          IN  (NotifyStep(pair) /\ Delegates(el) /\ Did(R1, "fanout")) =>
                IF d = 0
                THEN /\ timers' = {}
                     /\ \A i \in DOMAIN targets :
                           (page[el].animClass \in classList'[targets[i]])
                             = Did(R1, "enter")
                ELSE \A i \in DOMAIN targets :
                        \E t \in timers' :
                            t.el = targets[i] /\ t.rem = (i - 1) * d
      ]_vars

----------------------------------------------------------------------------
(* C24 *)

----------------------------------------------------------------------------
(* C25 *)

\* The positions for which the step has created a watcher.
NewPositions ==
    IF DebounceFire THEN DOMAIN positionObservers'
    ELSE DOMAIN positionObservers' \ DOMAIN positionObservers

\* C25: a watcher created for the fraction f in a window of height h has
\* margins that sum to -(h - 1) and a band from f*h to f*h + 1 below the top
\* of the window; and while the height has not changed since, a callback of
\* that watcher enters the element exactly if its top is at or above the top
\* of the band, which is the trigger line f*h of the element.
C25_BandAtTriggerLine ==
    [][/\ (Load \/ DebounceFire) =>
             \A f \in NewPositions :
                 LET m == io'[positionObservers'[f]].margin
                     line == Frac(f[1] * innerHeight, f[2])
                 IN  /\ Neg(m[1]) = line
                     /\ Add(Num(innerHeight), m[2]) = Add(line, Num(1))
                     /\ Add(m[1], m[2]) = Num(-(innerHeight - 1))
       /\ \A pair \in Owed(io, innerHeight) :
             (NotifyStep(pair) /\ pair[1] \in hist.steady) =>
                 LET el == pair[2]
                     top == Neg(io[pair[1]].margin[1])
                 IN  /\ Mul(Num(innerHeight), observedThresholds[el]) = top
                     /\ Did(NotifyResult(pair), "enter") = Leq(Num(Top(el)), top)
      ]_vars

\* After a resize to height 1000 and the rebuild, the watcher of the element
\* with the threshold 150px has the band from 150 to 151 and has delivered a
\* callback.
C25_Witness ==
    \E id \in hist.steady :
        \E el \in DOMAIN io[id].targets :
            /\ page[el].threshold = "150px"
            /\ innerHeight = 1000
            /\ io[id].margin = <<Num(-150), Num(-849)>>
            /\ io[id].targets[el] # "none"

====
